---------------------------- MODULE Spec2Model ----------------------------
(***************************************************************************)
(* Model of enum_helpers.hpp: the sequential enum_iterator and the         *)
(* enum-indexed enum_array.                                                *)
(*                                                                         *)
(* An enumeration value is the record [underlying |-> i], i being its      *)
(* integer representation in the enumeration's underlying type.  The       *)
(* underlying type is Width bits wide and signed or unsigned (sgn).  The   *)
(* model covers the underlying types whose arithmetic with the unsigned    *)
(* int Step is modular: every unsigned type, and the signed types no wider *)
(* than unsigned int (m_current + Step is computed in unsigned arithmetic  *)
(* and converted back to integer_type).                                    *)
(*                                                                         *)
(* ENUM_HELPERS_ASSERT defaults to assert, which NDEBUG compiles out:      *)
(* checked says whether the build evaluates the assertions.                *)
(***************************************************************************)
EXTENDS Integers, Sequences, FiniteSets, TLC

\* ------------------------------------------------------------------------
\* Bounds of the model
\* ------------------------------------------------------------------------
Width == 4          \* bits of the enumeration's underlying type
MaxStep == 9        \* largest Step template argument explored
MaxArraySize == 3   \* largest ArraySize explored
MaxIncs == 3        \* increments applied to a free-standing iterator

VARIABLES
    sgn,         \* underlying type of EnumType is signed
    checked,     \* ENUM_HELPERS_ASSERT is evaluated (not compiled out)
    Last,        \* template argument Last of enum_iterator
    Step,        \* template argument Step of enum_iterator
    c,           \* loop iterator of  for (c = begin(); c != end(); ++c)
    pc,          \* position of the loop
    yielded,     \* values the loop body obtained from *c, in order
    pairs,       \* (key, element) pairs collected by the keys() loop
    it,          \* a free-standing enum_iterator
    op,          \* last operation applied to it, with operands and result
    start,       \* position it was constructed at
    incs,        \* increments applied to it since its construction
    ArraySize,   \* template argument ArraySize of enum_array
    m_elements,  \* enum_array::m_elements, positions 0 .. size()-1
    ctor_list,   \* the aggregate initializer the array was built from
    written,     \* some element was assigned after construction
    acc          \* last operator[] call, with operand and outcome

cfgVars  == <<sgn, checked, Last, Step>>
loopVars == <<c, pc, yielded, pairs>>
opVars   == <<it, op, start, incs>>
arrVars  == <<ArraySize, m_elements, ctor_list, written, acc>>
vars     == <<cfgVars, loopVars, opVars, arrVars>>

\* ------------------------------------------------------------------------
\* Integer types and conversions
\* ------------------------------------------------------------------------
Modulus == 2 ^ Width
MaxYield == Modulus + 1     \* the loop is cut off after this many values

\* integer_type: the values of the underlying type
IntMin == IF sgn THEN -(Modulus \div 2) ELSE 0
IntMax == IF sgn THEN (Modulus \div 2) - 1 ELSE Modulus - 1
IntegerType == IntMin .. IntMax

\* conversion of an integer to integer_type (modular)
ToIntegerType(x) ==
    LET r == x % Modulus
    IN  IF sgn /\ r >= Modulus \div 2 THEN r - Modulus ELSE r

\* std::size_t is wider than the underlying type
SizeModulus == Modulus * Modulus

\* std::size_t(index) applied to an enumeration value
SizeT(index) == index.underlying % SizeModulus

\* static_cast<EnumType>(m_current)
StaticCastEnum(x) == [underlying |-> x]

\* static_cast<integer_type>(index)
StaticCastInteger(index) == ToIntegerType(index.underlying)

EnumType == { StaticCastEnum(x) : x \in IntegerType }

\* ------------------------------------------------------------------------
\* enum_iterator
\* ------------------------------------------------------------------------
DefaultStep == 1

FirstConstant_Mut == [m_current |-> 1]
\* enum_iterator(): m_current{ 0 }
DefaultCtor == [m_current |-> 0]

\* enum_iterator(const EnumType index)
ValueCtor(index) == [m_current |-> StaticCastInteger(index)]

PlusAssign_Mut(cur, step) == ToIntegerType(cur + step + 1)
\* m_current += Step
PlusAssign(cur, step) == ToIntegerType(cur + step)

\* operator++(): the receiver after the call and the returned iterator
PreIncrement(self, step) ==
    LET new == [m_current |-> PlusAssign(self.m_current, step)]
    IN  [self |-> new, ret |-> new]

\* operator++(int)
PostIncrement(self, step) ==
    LET old_val == self
        new     == [m_current |-> PlusAssign(self.m_current, step)]
    IN  [self |-> new, ret |-> old_val]

DerefInRange_Mut(self, last) == self.m_current <= StaticCastInteger(last)
\* the condition asserted by operator*
DerefInRange(self, last) == self.m_current < StaticCastInteger(last)

\* the value returned by operator*
DerefValue(self) == StaticCastEnum(self.m_current)

OpEq(a, b) == a.m_current = b.m_current
OpNe(a, b) == a.m_current # b.m_current
OpLt(a, b) == a.m_current < b.m_current
OpGt(a, b) == a.m_current > b.m_current
OpLe(a, b) == a.m_current <= b.m_current
OpGe(a, b) == a.m_current >= b.m_current

Begin == DefaultCtor

End_Mut(last) == ValueCtor(StaticCastEnum(last.underlying + 1))
End(last) == ValueCtor(last)

\* ------------------------------------------------------------------------
\* Idle values of the variables a specification does not use
\* ------------------------------------------------------------------------
NoIter == [m_current |-> 0]
NoOp   == [name |-> "none"]
NoAcc  == [name |-> "none"]

LoopIdle == /\ c = NoIter /\ pc = "idle" /\ yielded = <<>> /\ pairs = <<>>
OpsIdle  == /\ it = NoIter /\ op = NoOp /\ start = 0 /\ incs = 0
ArrIdle  == /\ ArraySize = StaticCastEnum(0) /\ m_elements = <<>>
            /\ ctor_list = <<>> /\ written = FALSE /\ acc = NoAcc

CfgInit == /\ sgn \in BOOLEAN
           /\ checked \in BOOLEAN
           /\ Last \in EnumType
           /\ Step \in 1 .. MaxStep

\* ------------------------------------------------------------------------
\* The loop  for (auto c = iter.begin(); c != iter.end(); ++c) { use(*c); }
\* (the range-based for over an enum_iterator expands to the same steps)
\* ------------------------------------------------------------------------
LoopInit == /\ CfgInit
            /\ c = Begin
            /\ pc = "test"
            /\ yielded = <<>>
            /\ pairs = <<>>
            /\ OpsIdle /\ ArrIdle

\* c != iter.end()
LoopTest == /\ pc = "test"
            /\ pc' = IF OpNe(c, End(Last)) THEN "body" ELSE "done"
            /\ UNCHANGED <<c, yielded, pairs, cfgVars, opVars, arrVars>>

\* *c  with the assertion failing: the program is aborted
LoopDerefAbort == /\ pc = "body"
                  /\ checked /\ ~DerefInRange(c, Last)
                  /\ pc' = "aborted"
                  /\ UNCHANGED <<c, yielded, pairs, cfgVars, opVars, arrVars>>

\* *c  returning a value (assertion holds or is compiled out)
LoopDeref == /\ pc = "body"
             /\ ~checked \/ DerefInRange(c, Last)
             /\ Len(yielded) < MaxYield
             /\ yielded' = Append(yielded, DerefValue(c))
             /\ pc' = "incr"
             /\ UNCHANGED <<c, pairs, cfgVars, opVars, arrVars>>

\* ++c
LoopIncr == /\ pc = "incr"
            /\ c' = PreIncrement(c, Step).self
            /\ pc' = "test"
            /\ UNCHANGED <<yielded, pairs, cfgVars, opVars, arrVars>>

LoopNext == LoopTest \/ LoopDerefAbort \/ LoopDeref \/ LoopIncr

LoopSpec == LoopInit /\ [][LoopNext]_vars

\* ------------------------------------------------------------------------
\* A free-standing iterator under arbitrary use
\* ------------------------------------------------------------------------
\* the record of an operation: the position before it, what it returned,
\* and whether it returned at all (ok = FALSE: the assertion aborted it)
\* enumeration values passed to enum_iterator(const EnumType index): around
\* the first constant, around Last, and the extremes of the underlying type
ValueInputs ==
    { StaticCastEnum(x) : x \in IntegerType \cap
        ({-1, 0, 1, Last.underlying - 1, Last.underlying, Last.underlying + 1}
         \cup {IntMin, IntMax}) }

OpRec(name, before, retIter, retVal, ok) ==
    [name |-> name, before |-> before, retIter |-> retIter,
     retVal |-> retVal, ok |-> ok]

OpsInit == /\ CfgInit
           /\ it = DefaultCtor
           /\ op = OpRec("default", 0, NoIter, StaticCastEnum(0), TRUE)
           /\ start = 0
           /\ incs = 0
           /\ LoopIdle /\ ArrIdle

\* it = enum_iterator{}
OpDefault == /\ op.ok
             /\ it' = DefaultCtor
             /\ op' = OpRec("default", it.m_current, NoIter, StaticCastEnum(0), TRUE)
             /\ start' = DefaultCtor.m_current
             /\ incs' = 0
             /\ UNCHANGED <<cfgVars, loopVars, arrVars>>

\* it = enum_iterator{ index }
OpValue == /\ op.ok
           /\ \E index \in ValueInputs :
                /\ it' = ValueCtor(index)
                /\ op' = OpRec("value", it.m_current, NoIter, index, TRUE)
                /\ start' = ValueCtor(index).m_current
           /\ incs' = 0
           /\ UNCHANGED <<cfgVars, loopVars, arrVars>>

\* it = it.begin()
OpBegin == /\ op.ok
           /\ it' = Begin
           /\ op' = OpRec("begin", it.m_current, Begin, StaticCastEnum(0), TRUE)
           /\ start' = Begin.m_current
           /\ incs' = 0
           /\ UNCHANGED <<cfgVars, loopVars, arrVars>>

\* it = it.end()
OpEnd == /\ op.ok
         /\ it' = End(Last)
         /\ op' = OpRec("end", it.m_current, End(Last), StaticCastEnum(0), TRUE)
         /\ start' = End(Last).m_current
         /\ incs' = 0
         /\ UNCHANGED <<cfgVars, loopVars, arrVars>>

\* ++it
OpPreInc == /\ op.ok
            /\ incs < MaxIncs
            /\ LET r == PreIncrement(it, Step)
               IN  /\ it' = r.self
                   /\ op' = OpRec("preinc", it.m_current, r.ret, StaticCastEnum(0), TRUE)
            /\ incs' = incs + 1
            /\ UNCHANGED <<start, cfgVars, loopVars, arrVars>>

\* it++
OpPostInc == /\ op.ok
             /\ incs < MaxIncs
             /\ LET r == PostIncrement(it, Step)
                IN  /\ it' = r.self
                    /\ op' = OpRec("postinc", it.m_current, r.ret, StaticCastEnum(0), TRUE)
             /\ incs' = incs + 1
             /\ UNCHANGED <<start, cfgVars, loopVars, arrVars>>

\* *it
OpDeref == /\ op.ok
           /\ op' = IF checked /\ ~DerefInRange(it, Last)
                    THEN OpRec("deref", it.m_current, NoIter, StaticCastEnum(0), FALSE)
                    ELSE OpRec("deref", it.m_current, NoIter, DerefValue(it), TRUE)
           /\ UNCHANGED <<it, start, incs, cfgVars, loopVars, arrVars>>

OpsNext == OpDefault \/ OpValue \/ OpBegin \/ OpEnd
           \/ OpPreInc \/ OpPostInc \/ OpDeref

OpsSpec == OpsInit /\ [][OpsNext]_vars

\* ------------------------------------------------------------------------
\* enum_array
\* ------------------------------------------------------------------------
\* DataType: two distinguishable values
Data == {"a", "b"}

\* size(): std::size_t(ArraySize)
size == SizeT(ArraySize)

PosInRange_Mut(index) == index <= size
\* the condition asserted by operator[](const std::size_t index)
PosInRange(index) == index < size

KeyIndex_Mut(index) == SizeT(index) + 1
\* std::size_t(index) in operator[](const EnumType index)
KeyIndex(index) == SizeT(index)

\* the condition asserted by operator[](const EnumType index)
KeyInRange(index) == KeyIndex(index) < size

\* positions passed to operator[](std::size_t): around the array's end and
\* the largest std::size_t
Positions == (0 .. (MaxArraySize + 1)) \cup {SizeModulus - 1}

\* enumeration values passed to operator[](EnumType): the constants, the
\* terminal constant and beyond, negative values, the extremes of the type
KeyInputs ==
    { StaticCastEnum(x) : x \in IntegerType \cap
        (((-1) .. (MaxArraySize + 1)) \cup {IntMin, IntMax}) }

\* the record of an operator[] call.  outcome: "ok" (a reference to
\* m_elements[slot] was returned and used), "violation" (the assertion
\* aborted the program), and, the assertion being compiled out and the
\* slot outside the array, "ub_value" (the read produced some value),
\* "ub_stray" (the write went to memory outside the array), "ub_crash"
AccRec(name, key, slot, outcome, value, before) ==
    [name |-> name, key |-> key, slot |-> slot, outcome |-> outcome,
     value |-> value, before |-> before]

Running == acc.outcome \notin {"violation", "ub_crash"}

ArrayCfgInit ==
    /\ sgn \in BOOLEAN
    /\ checked \in BOOLEAN
    /\ ArraySize \in { StaticCastEnum(n) : n \in 1 .. MaxArraySize }
    /\ Last = ArraySize          \* key_iterator = enum_iterator<EnumType, ArraySize>
    /\ Step = DefaultStep
    /\ ctor_list \in [0 .. (ArraySize.underlying - 1) -> Data]
    /\ m_elements = ctor_list
    /\ written = FALSE
    /\ acc = AccRec("ctor", StaticCastEnum(0), 0, "ok", "none", ctor_list)

ArrayInit == ArrayCfgInit /\ LoopIdle /\ OpsIdle

\* x = array[slot] through a const operator[], the assertion having been
\* evaluated on inRange
Read(name, key, slot, inRange) ==
    /\ Running
    /\ IF checked /\ ~inRange
       THEN acc' = AccRec(name, key, slot, "violation", "none", m_elements)
       ELSE IF slot \in DOMAIN m_elements
       THEN acc' = AccRec(name, key, slot, "ok", m_elements[slot], m_elements)
       ELSE \/ \E v \in Data :
                  acc' = AccRec(name, key, slot, "ub_value", v, m_elements)
            \/ acc' = AccRec(name, key, slot, "ub_crash", "none", m_elements)
    /\ UNCHANGED <<ArraySize, m_elements, ctor_list, written,
                   cfgVars, loopVars, opVars>>

\* array[slot] = v through a non-const operator[]
Write(name, key, slot, inRange, v) ==
    /\ Running
    /\ IF checked /\ ~inRange
       THEN /\ acc' = AccRec(name, key, slot, "violation", "none", m_elements)
            /\ UNCHANGED <<m_elements, written>>
       ELSE IF slot \in DOMAIN m_elements
       THEN /\ acc' = AccRec(name, key, slot, "ok", v, m_elements)
            /\ m_elements' = [m_elements EXCEPT ![slot] = v]
            /\ written' = TRUE
       ELSE /\ \/ acc' = AccRec(name, key, slot, "ub_stray", v, m_elements)
               \/ acc' = AccRec(name, key, slot, "ub_crash", "none", m_elements)
            /\ UNCHANGED <<m_elements, written>>
    /\ UNCHANGED <<ArraySize, ctor_list, cfgVars, loopVars, opVars>>

\* const DataType & operator[](const std::size_t index) const
ReadPos == /\ Running
           /\ \E index \in Positions :
              Read("read_pos", StaticCastEnum(0), index, PosInRange(index))

\* const DataType & operator[](const EnumType index) const
ReadKey == /\ Running
           /\ \E index \in KeyInputs :
              Read("read_key", index, KeyIndex(index), KeyInRange(index))

\* DataType & operator[](const std::size_t index)
WritePos == /\ Running
            /\ \E index \in Positions, v \in Data :
               Write("write_pos", StaticCastEnum(0), index, PosInRange(index), v)

\* DataType & operator[](const EnumType index)
WriteKey == /\ Running
            /\ \E index \in KeyInputs, v \in Data :
               Write("write_key", index, KeyIndex(index), KeyInRange(index), v)

ArrayNext == ReadPos \/ ReadKey \/ WritePos \/ WriteKey

ArraySpec == ArrayInit /\ [][ArrayNext]_vars

\* ------------------------------------------------------------------------
\* The loop  for (auto k : array.keys()) { use(k, array[k]); }
\* ------------------------------------------------------------------------
\* keys(): key_iterator{}
Keys == DefaultCtor

KeysInit == /\ ArrayCfgInit
            /\ c = Begin             \* __begin = keys().begin()
            /\ pc = "test"
            /\ yielded = <<>>
            /\ pairs = <<>>
            /\ OpsIdle

\* __begin != __end, with __end = keys().end()
KeysTest == /\ pc = "test"
            /\ pc' = IF OpNe(c, End(ArraySize)) THEN "body" ELSE "done"
            /\ UNCHANGED <<c, yielded, pairs, cfgVars, opVars, arrVars>>

\* k = *__begin; use(k, array[k]).  Either assertion failing aborts the
\* program.
KeysBody == /\ pc = "body"
            /\ Len(yielded) < MaxYield
            /\ LET k == DerefValue(c)
               IN  IF checked /\ (~DerefInRange(c, ArraySize) \/ ~KeyInRange(k))
                   THEN /\ pc' = "aborted"
                        /\ UNCHANGED <<yielded, pairs>>
                   ELSE /\ pc' = "incr"
                        /\ yielded' = Append(yielded, k)
                        /\ IF KeyIndex(k) \in DOMAIN m_elements
                           THEN pairs' = Append(pairs, <<k, m_elements[KeyIndex(k)]>>)
                           ELSE \E v \in Data : pairs' = Append(pairs, <<k, v>>)
            /\ UNCHANGED <<c, cfgVars, opVars, arrVars>>

\* ++__begin, key_iterator having the default Step
KeysIncr == /\ pc = "incr"
            /\ c' = PreIncrement(c, DefaultStep).self
            /\ pc' = "test"
            /\ UNCHANGED <<yielded, pairs, cfgVars, opVars, arrVars>>

KeysNext == KeysTest \/ KeysBody \/ KeysIncr

KeysSpec == KeysInit /\ [][KeysNext]_vars

\* ========================================================================
\* Properties
\* ========================================================================
N == Last.underlying

\* ---- the begin()/end() loop (LoopSpec) ---------------------------------

\* C1: with terminal value N >= 0 and step 1 the loop from begin() to end()
\* yields exactly the N values 0 .. N-1 converted to the enumeration type,
\* in ascending order, never the terminal constant, is never aborted, and
\* ends with the iterator equal to end().
C1_StepOneYieldsAll ==
    (Step = 1 /\ N >= 0) =>
        /\ pc # "aborted"
        /\ Len(yielded) <= N
        /\ \A i \in 1 .. Len(yielded) : yielded[i] = StaticCastEnum(i - 1)
        /\ pc \in {"test", "body"} => c.m_current = Len(yielded)
        /\ pc = "incr" => c.m_current = Len(yielded) - 1
        /\ pc = "done" => Len(yielded) = N /\ OpEq(c, End(Last))

C1_Witness ==
    /\ pc = "done" /\ Step = 1 /\ N = 3
    /\ yielded = <<StaticCastEnum(0), StaticCastEnum(1), StaticCastEnum(2)>>
    /\ OpEq(c, End(Last))

\* C3: with step S > 1 and any terminal value N >= 0 the loop yields
\* 0, S, 2S, ... below N, in that order, never N or a value above N, and
\* reaches end() having yielded all of them.
C3_Claim ==
    (Step > 1 /\ N >= 0) =>
        /\ pc # "aborted"
        /\ \A i \in 1 .. Len(yielded) :
              /\ yielded[i] = StaticCastEnum((i - 1) * Step)
              /\ yielded[i].underlying < N
        /\ pc = "done" => Len(yielded) = (N + Step - 1) \div Step

\* C9: for every N >= 0 and S >= 1 the loop terminates with the iterator
\* equal to end(): no dereference is attempted at a position >= N, and the
\* loop body runs at most N times.
C9_Claim ==
    (N >= 0) =>
        /\ pc # "aborted"
        /\ pc = "body" => c.m_current < N
        /\ Len(yielded) <= N

\* ---- a free-standing iterator (OpsSpec) --------------------------------
IncNames == {"preinc", "postinc"}

\* C5 as stated (for a non-empty enumeration): every dereference at a
\* position >= terminal is a contract violation; below terminal it returns
\* the enumeration value of that position and leaves the position unchanged.
C5_Claim ==
    (op.name = "deref" /\ N > 0) =>
        IF op.before >= N
        THEN ~op.ok
        ELSE op.ok /\ op.retVal = StaticCastEnum(op.before)
                   /\ it.m_current = op.before

\* C5 amended: in a build that evaluates ENUM_HELPERS_ASSERT a dereference
\* at a position >= terminal is a contract violation; with the assertion
\* compiled out it returns the enumeration value of that position.  Below
\* terminal it returns the enumeration value of the position in every
\* build.  The position is never changed.
C5_DerefChecked ==
    op.name = "deref" =>
        /\ it.m_current = op.before
        /\ IF checked /\ op.before >= N
           THEN ~op.ok
           ELSE op.ok /\ op.retVal = StaticCastEnum(op.before)

C5_Witness ==
    /\ op.name = "deref" /\ checked /\ N = 3
    /\ op.before = 3 /\ ~op.ok /\ it = End(Last)

\* C7: pre-increment at position p returns an iterator at p + S,
\* post-increment one at p, and the receiver is at exactly p + S afterwards;
\* for a and b from begin(): a == b, *(a++) is the first constant and
\* *(++b) the second.
C7_Claim ==
    /\ (op.name = "preinc" /\ N > 0) =>
          /\ op.retIter.m_current = op.before + Step
          /\ it.m_current = op.before + Step
    /\ (op.name = "postinc" /\ N > 0) =>
          /\ op.retIter.m_current = op.before
          /\ it.m_current = op.before + Step
    /\ LET a == Begin
           b == Begin
       IN  /\ OpEq(a, b)
           /\ DerefValue(PostIncrement(a, DefaultStep).ret) = StaticCastEnum(0)
           /\ DerefValue(PreIncrement(b, DefaultStep).ret) = StaticCastEnum(1)

\* C8 as stated: the position of an iterator always lies in [0, terminal)
\* (stated for a non-empty enumeration).
C8_Claim ==
    (N > 0) => (0 <= it.m_current /\ it.m_current < N)

\* C8 amended: after default construction and begin() the position is 0,
\* which lies in [0, terminal) when terminal > 0; after an increment from a
\* position p with 0 <= p and p + Step < terminal it lies in
\* [0, terminal); after end() it is exactly terminal, and after
\* construction from a value it is that value's integer representation.
C8_PositionRange ==
    /\ (op.name \in {"default", "begin"} /\ N > 0) =>
          (it.m_current = 0 /\ 0 <= it.m_current /\ it.m_current < N)
    /\ (op.name \in IncNames /\ 0 <= op.before /\ op.before + Step < N) =>
          (0 <= it.m_current /\ it.m_current < N)
    /\ op.name = "end" => it.m_current = N
    /\ op.name = "value" => it.m_current = op.retVal.underlying

C8_Witness ==
    /\ op.name = "preinc" /\ N = 3 /\ Step = 1
    /\ op.before = 1 /\ it.m_current = 2

\* C10: after k increments from position p the position is p + k*Step
\* exactly, an increment never produces a smaller position, and an iterator
\* advanced to or past the terminal value does not compare less than end().
C10_Claim ==
    (N > 0) =>
        /\ it.m_current = start + incs * Step
        /\ op.name \in IncNames => it.m_current >= op.before
        /\ (start + incs * Step >= N) => ~OpLt(it, End(Last))

\* ---- enum_array (ArraySpec) --------------------------------------------
ArrayLen == ArraySize.underlying

\* C2: on an array that was not written since its construction from
\* [v0 .. v(N-1)], array[k] is vk for every position k < N and array[E] is
\* v_i for every enumeration value E with integer representation i in
\* [0, N); keyed access by E uses the slot of positional access by i.
C2_AccessValues ==
    /\ (acc.name = "read_pos" /\ ~written /\ acc.slot < ArrayLen) =>
          (acc.outcome = "ok" /\ acc.value = ctor_list[acc.slot])
    /\ (acc.name = "read_key" /\ ~written
           /\ acc.key.underlying \in 0 .. (ArrayLen - 1)) =>
          (acc.outcome = "ok" /\ acc.value = ctor_list[acc.key.underlying])
    /\ (acc.name \in {"read_key", "write_key"}
           /\ acc.key.underlying \in 0 .. (ArrayLen - 1)) =>
          /\ acc.outcome = "ok"
          /\ acc.slot = acc.key.underlying
          /\ acc.name = "read_key" => acc.value = acc.before[acc.key.underlying]

C2_Witness ==
    /\ acc.name = "read_key" /\ ~written /\ ArrayLen = 3
    /\ acc.key = StaticCastEnum(2) /\ acc.outcome = "ok"
    /\ ctor_list[1] # ctor_list[2] /\ acc.value = ctor_list[2]

OutOfRange ==
    \/ acc.name \in {"read_pos", "write_pos"} /\ acc.slot >= ArrayLen
    \/ acc.name \in {"read_key", "write_key"} /\ SizeT(acc.key) >= ArrayLen

\* C6 as stated: every operator[] call with a position >= N, or with an
\* enumeration value whose std::size_t conversion is >= N, is a contract
\* violation, and no element is returned or modified.
C6_Claim ==
    OutOfRange => (acc.outcome = "violation" /\ m_elements = acc.before)

\* C6 amended: in a build that evaluates ENUM_HELPERS_ASSERT, every
\* operator[] call with a position >= N, or with an enumeration value whose
\* std::size_t conversion is >= N (the terminal constant and negative
\* values included), is a contract violation, and no element is returned
\* or modified.
C6_CheckedAccess ==
    (checked /\ OutOfRange) =>
        (acc.outcome = "violation" /\ m_elements = acc.before)

C6_Witness ==
    /\ checked /\ acc.name = "write_key" /\ acc.key = ArraySize
    /\ acc.outcome = "violation" /\ m_elements = acc.before

\* ---- the keys() loop (KeysSpec) ----------------------------------------

\* C4: iterating array.keys() yields exactly N enumeration values, the
\* i-th with integer representation i, and pairing each with the array's
\* element reproduces the construction list in order.
C4_KeysPairs ==
    /\ pc # "aborted"
    /\ Len(yielded) <= ArrayLen
    /\ Len(pairs) = Len(yielded)
    /\ \A i \in 1 .. Len(yielded) :
          /\ yielded[i] = StaticCastEnum(i - 1)
          /\ pairs[i] = <<StaticCastEnum(i - 1), ctor_list[i - 1]>>
    /\ pc \in {"test", "body"} => c.m_current = Len(yielded)
    /\ pc = "incr" => c.m_current = Len(yielded) - 1
    /\ pc = "done" => Len(yielded) = ArrayLen

C4_Witness ==
    /\ pc = "done" /\ ArrayLen = 3 /\ Len(pairs) = 3
    /\ ctor_list[0] # ctor_list[1]
    /\ pairs[2] = <<StaticCastEnum(1), ctor_list[1]>>

=============================================================================
